---- MODULE Spec2Model ----
(***************************************************************************)
(* Model of atlas_pipeline.py: a sequential script that brings up a        *)
(* Minikube cluster, deploys two manifests, polls /health and writes a     *)
(* GitHub Actions workflow file.  Each action is one statement of the      *)
(* script that talks to the outside world (a shell command, a sleep, the   *)
(* file write); the outcome of the outside world is chosen with \E.        *)
(*                                                                         *)
(* cmds, log, sleeps and workflow are what the outside world observes of   *)
(* a run: the commands executed (with their outcome), the lines printed,   *)
(* the durations passed to time.sleep and the content of the workflow      *)
(* file.                                                                   *)
(* steps and completed record which functions main has called and which    *)
(* of them have returned.  config holds the module-level parameters, which *)
(* are set once and only read.                                             *)
(***************************************************************************)
EXTENDS Integers, Sequences, FiniteSets, TLC

VARIABLES config, pc, idx, ip, attempt, sleeps, cmds, log, steps, completed, exitCode, workflow

vars == <<config, pc, idx, ip, attempt, sleeps, cmds, log, steps, completed, exitCode, workflow>>

----------------------------------------------------------------------------
(* Configuration and literals of the script *)

NAMESPACE == "atlas"
NODE_PORT == 30080
IMAGE_LOCAL == "atlas-app:latest"
GITHUB_WORKFLOW == ".github/workflows/ci-atlas.yaml"

\* a loop that makes one attempt more: range(1, 7)
MaxAttempts_OneMore == 5 + 1

\* for attempt in range(1, 6)
MaxAttempts == 5
\* time.sleep(2)
SleepSeconds == 2

DeploymentManifest == "k8s/atlas-deployment.yaml"
ServiceManifest == "k8s/atlas-service-nodeport.yaml"
\* the two apply statements of deploy_minikube, in program order
Manifests == <<DeploymentManifest, ServiceManifest>>

\* the calls of main, in program order
StepOrder == <<"ClusterSetup", "Deploy", "HealthCheck", "EmitWorkflow">>

----------------------------------------------------------------------------
(* What the outside world can answer.  ok is the exit status (FALSE is a   *)
(* non-zero exit, which subprocess turns into CalledProcessError); out is  *)
(* what the tool printed.                                                  *)

Outcome(ok, out) == [ok |-> ok, out |-> out]

\* minikube status --format '{{.Host}}': the exit status and the printed
\* host state are independent (the exit status also covers kubelet and
\* apiserver)
StatusOutcomes == {Outcome(k, s) : k \in BOOLEAN, s \in {"Running", "Stopped"}}
PlainOutcomes == {Outcome(TRUE, ""), Outcome(FALSE, "")}
NodesOutcomes == {Outcome(TRUE, "minikube Ready"), Outcome(TRUE, ""), Outcome(FALSE, "")}
NamespaceOutcomes == {Outcome(TRUE, "created"), Outcome(FALSE, "AlreadyExists"), Outcome(FALSE, "Forbidden")}
IpOutcomes == {Outcome(TRUE, "192.168.49.2"), Outcome(TRUE, ""), Outcome(FALSE, "")}
\* os.makedirs / open / write either work or raise OSError
WriteOutcomes == {"ok", "oserror"}

----------------------------------------------------------------------------
(* Helpers *)

\* an executor that hands every outcome back as a value and never raises
Raises_Never(o) == FALSE

\* subprocess.run(check=True) and subprocess.check_output: a non-zero exit
\* status is raised to the caller as CalledProcessError; run() re-raises it
Raises(o) == ~o.ok

\* one executed command: what was run, how it ended, and how the executor
\* handed the outcome to its caller
Entry(verb, arg, o) ==
    [verb |-> verb, arg |-> arg, ok |-> o.ok, out |-> o.out,
     how |-> IF Raises(o) THEN "CalledProcessError" ELSE "returned"]
Line(kind, verb, arg) == [kind |-> kind, verb |-> verb, arg |-> arg]

\* run(cmd): print "$ cmd", execute, on CalledProcessError print
\* "Command failed" and re-raise.  The lines run() prints for outcome o.
RunLog(verb, arg, o) ==
    IF Raises(o) THEN <<Line("cmd", verb, arg), Line("failed", verb, arg)>>
                 ELSE <<Line("cmd", verb, arg)>>

\* Content with the namespace written out in the apply lines
Content_HardcodedNamespace(image, namespace, port) ==
    << <<"docker build -t", image>>,
       <<"minikube image load", image>>,
       <<"kubectl create namespace", namespace>>,
       <<"kubectl apply -n", "atlas", DeploymentManifest>>,
       <<"kubectl apply -n", "atlas", ServiceManifest>>,
       <<"curl --retry 5", port>> >>

\* the text written by generate_github_actions, as the sequence of its
\* lines that carry a parameter
Content(image, namespace, port) ==
    << <<"docker build -t", image>>,
       <<"minikube image load", image>>,
       <<"kubectl create namespace", namespace>>,
       <<"kubectl apply -n", namespace, DeploymentManifest>>,
       <<"kubectl apply -n", namespace, ServiceManifest>>,
       <<"curl --retry 5", port>> >>

\* except Exception as e: print("Pipeline failed"); sys.exit(1)
PipelineFailed(lines) ==
    /\ log' = log \o lines \o <<Line("pipeline_failed", "", "")>>
    /\ exitCode' = 1
    /\ pc' = "aborted"

\* sys.exit() without an argument: the message is printed, the status is 0
SysExit_Zero(lines, msg) ==
    /\ log' = log \o lines \o <<Line("exit", msg, "")>>
    /\ exitCode' = 0
    /\ pc' = "aborted"

\* sys.exit("message"): SystemExit is not an Exception, so main's handler
\* does not catch it; the interpreter prints the message and exits with 1
SysExit(lines, msg) ==
    /\ log' = log \o lines \o <<Line("exit", msg, "")>>
    /\ exitCode' = 1
    /\ pc' = "aborted"

----------------------------------------------------------------------------

\* the configurable parameters as the script sets them
DefaultConfig == [namespace |-> NAMESPACE, port |-> NODE_PORT, image |-> IMAGE_LOCAL]

\* the state of the run before main's first statement
Running ==
    /\ pc = "status"
    /\ idx = 1
    /\ ip = ""
    /\ attempt = 1
    /\ sleeps = <<>>
    /\ cmds = <<>>
    /\ log = <<>>
    /\ steps = <<>>
    /\ completed = <<>>
    /\ exitCode = -1
    /\ workflow = <<>>

Init ==
    /\ config = DefaultConfig
    /\ Running

----------------------------------------------------------------------------
(* Step 1: setup_minikube *)

\* Status with the start command issued unconditionally
Status_AlwaysStart ==
    /\ pc = "status"
    /\ \E o \in StatusOutcomes :
        /\ cmds' = Append(cmds, Entry("status", "", o))
        /\ log' = log \o RunLog("status", "", o)
    /\ pc' = "start"
    /\ steps' = Append(steps, "ClusterSetup")
    /\ UNCHANGED <<config, idx, ip, attempt, sleeps, completed, exitCode, workflow>>

\* main calls setup_minikube; run("minikube status ...") inside try/except
Status ==
    /\ pc = "status"
    /\ \E o \in StatusOutcomes :
        /\ cmds' = Append(cmds, Entry("status", "", o))
        /\ IF ~Raises(o)
             THEN /\ log' = log \o RunLog("status", "", o)
                  /\ pc' = "use-context"
             ELSE /\ log' = log \o RunLog("status", "", o)
                              \o <<Line("info", "not running; starting", "")>>
                  /\ pc' = "start"
    /\ steps' = Append(steps, "ClusterSetup")
    /\ UNCHANGED <<config, idx, ip, attempt, sleeps, completed, exitCode, workflow>>

\* Start whose failure is printed but not raised
Start_Continue ==
    /\ pc = "start"
    /\ \E o \in PlainOutcomes :
        /\ cmds' = Append(cmds, Entry("start", "docker", o))
        /\ log' = log \o RunLog("start", "docker", o)
    /\ pc' = "use-context"
    /\ UNCHANGED <<config, idx, ip, attempt, sleeps, steps, completed, exitCode, workflow>>

\* run("minikube start --driver=docker") in the except branch
Start ==
    /\ pc = "start"
    /\ \E o \in PlainOutcomes :
        /\ cmds' = Append(cmds, Entry("start", "docker", o))
        /\ IF ~Raises(o)
             THEN /\ log' = log \o RunLog("start", "docker", o)
                  /\ pc' = "use-context"
                  /\ UNCHANGED exitCode
             ELSE PipelineFailed(RunLog("start", "docker", o))
    /\ UNCHANGED <<config, idx, ip, attempt, sleeps, steps, completed, workflow>>

\* UseContext that tries the command a second time when it failed
UseContext_RetryOnce ==
    /\ pc = "use-context"
    /\ \E o \in PlainOutcomes :
        /\ cmds' = Append(cmds, Entry("use-context", "minikube", o))
        /\ IF ~Raises(o)
             THEN /\ log' = log \o RunLog("use-context", "minikube", o)
                  /\ pc' = "get-nodes"
                  /\ UNCHANGED exitCode
             ELSE IF cmds[Len(cmds)].verb # "use-context"
                    THEN /\ log' = log \o RunLog("use-context", "minikube", o)
                         /\ pc' = "use-context"
                         /\ UNCHANGED exitCode
                    ELSE PipelineFailed(RunLog("use-context", "minikube", o))
    /\ UNCHANGED <<config, idx, ip, attempt, sleeps, steps, completed, workflow>>

\* run("kubectl config use-context minikube")
UseContext ==
    /\ pc = "use-context"
    /\ \E o \in PlainOutcomes :
        /\ cmds' = Append(cmds, Entry("use-context", "minikube", o))
        /\ IF ~Raises(o)
             THEN /\ log' = log \o RunLog("use-context", "minikube", o)
                  /\ pc' = "get-nodes"
                  /\ UNCHANGED exitCode
             ELSE PipelineFailed(RunLog("use-context", "minikube", o))
    /\ UNCHANGED <<config, idx, ip, attempt, sleeps, steps, completed, workflow>>

\* GetNodes with the failure of the command swallowed instead of re-raised
GetNodes_Swallow ==
    /\ pc = "get-nodes"
    /\ \E o \in NodesOutcomes :
        /\ cmds' = Append(cmds, Entry("get-nodes", "", o))
        /\ log' = log \o RunLog("get-nodes", "", o)
    /\ pc' = "create-namespace"
    /\ completed' = Append(completed, "ClusterSetup")
    /\ UNCHANGED <<config, idx, ip, attempt, sleeps, steps, exitCode, workflow>>

\* run("kubectl get nodes"); setup_minikube returns
GetNodes ==
    /\ pc = "get-nodes"
    /\ \E o \in NodesOutcomes :
        /\ cmds' = Append(cmds, Entry("get-nodes", "", o))
        /\ IF ~Raises(o)
             THEN /\ log' = log \o RunLog("get-nodes", "", o)
                  /\ pc' = "create-namespace"
                  /\ completed' = Append(completed, "ClusterSetup")
                  /\ UNCHANGED exitCode
             ELSE /\ PipelineFailed(RunLog("get-nodes", "", o))
                  /\ UNCHANGED completed
    /\ UNCHANGED <<config, idx, ip, attempt, sleeps, steps, workflow>>

----------------------------------------------------------------------------
(* Step 2: deploy_minikube *)

\* CreateNamespace without the try/except: a failure reaches main's handler
CreateNamespace_NoExcept ==
    /\ pc = "create-namespace"
    /\ \E o \in NamespaceOutcomes :
        /\ cmds' = Append(cmds, Entry("create-namespace", config.namespace, o))
        /\ IF ~Raises(o)
             THEN /\ log' = log \o RunLog("create-namespace", config.namespace, o)
                  /\ pc' = "apply"
                  /\ UNCHANGED exitCode
             ELSE PipelineFailed(RunLog("create-namespace", config.namespace, o))
    /\ idx' = 1
    /\ steps' = Append(steps, "Deploy")
    /\ UNCHANGED <<config, ip, attempt, sleeps, completed, workflow>>

\* main calls deploy_minikube; run("kubectl create namespace atlas") inside
\* try/except: every CalledProcessError is caught, whatever its reason
CreateNamespace ==
    /\ pc = "create-namespace"
    /\ \E o \in NamespaceOutcomes :
        /\ cmds' = Append(cmds, Entry("create-namespace", config.namespace, o))
        /\ log' = log \o RunLog("create-namespace", config.namespace, o)
                      \o (IF ~Raises(o) THEN <<>>
                          ELSE <<Line("info", "already exists; continuing", config.namespace)>>)
    /\ pc' = "apply"
    /\ idx' = 1
    /\ steps' = Append(steps, "Deploy")
    /\ UNCHANGED <<config, ip, attempt, sleeps, completed, exitCode, workflow>>

\* Apply that goes on to the next statement when the command fails
Apply_Continue ==
    /\ pc = "apply"
    /\ idx \in 1..Len(Manifests)
    /\ \E o \in PlainOutcomes :
        /\ cmds' = Append(cmds, Entry("apply", Manifests[idx], o))
        /\ log' = log \o <<Line("step", "Applying manifest", Manifests[idx])>>
                      \o RunLog("apply", Manifests[idx], o)
    /\ IF idx < Len(Manifests)
         THEN /\ idx' = idx + 1
              /\ pc' = "apply"
              /\ UNCHANGED completed
         ELSE /\ idx' = idx
              /\ pc' = "minikube-ip"
              /\ completed' = Append(completed, "Deploy")
    /\ UNCHANGED <<config, ip, attempt, sleeps, steps, exitCode, workflow>>

\* print("Applying ... manifest"); run("kubectl apply -n atlas -f <manifest>"),
\* for the deployment manifest and then the service manifest; after the
\* second one deploy_minikube returns
Apply ==
    /\ pc = "apply"
    /\ idx \in 1..Len(Manifests)
    /\ \E o \in PlainOutcomes :
        /\ cmds' = Append(cmds, Entry("apply", Manifests[idx], o))
        /\ IF ~Raises(o)
             THEN /\ log' = log \o <<Line("step", "Applying manifest", Manifests[idx])>>
                                \o RunLog("apply", Manifests[idx], o)
                  /\ UNCHANGED exitCode
                  /\ IF idx < Len(Manifests)
                       THEN /\ idx' = idx + 1
                            /\ pc' = "apply"
                            /\ UNCHANGED completed
                       ELSE /\ idx' = idx
                            /\ pc' = "minikube-ip"
                            /\ completed' = Append(completed, "Deploy")
             ELSE /\ PipelineFailed(<<Line("step", "Applying manifest", Manifests[idx])>>
                                      \o RunLog("apply", Manifests[idx], o))
                  /\ UNCHANGED <<idx, completed>>
    /\ UNCHANGED <<config, ip, attempt, sleeps, steps, workflow>>

----------------------------------------------------------------------------
(* Step 3: healthcheck_minikube *)

\* MinikubeIp that enters the retry loop although the address query failed
MinikubeIp_Continue ==
    /\ pc = "minikube-ip"
    /\ \E o \in IpOutcomes :
        /\ cmds' = Append(cmds, Entry("minikube-ip", "", o))
        /\ ip' = o.out
    /\ attempt' = 1
    /\ pc' = "probe"
    /\ steps' = Append(steps, "HealthCheck")
    /\ UNCHANGED <<config, idx, sleeps, log, exitCode, completed, workflow>>

\* main calls healthcheck_minikube; subprocess.check_output("minikube ip"),
\* which prints nothing; sys.exit on CalledProcessError
MinikubeIp ==
    /\ pc = "minikube-ip"
    /\ \E o \in IpOutcomes :
        /\ cmds' = Append(cmds, Entry("minikube-ip", "", o))
        /\ IF ~Raises(o)
             THEN /\ ip' = o.out
                  /\ attempt' = 1
                  /\ pc' = "probe"
                  /\ UNCHANGED <<log, exitCode>>
             ELSE /\ SysExit(<<>>, "Failed to get Minikube IP.")
                  /\ UNCHANGED <<ip, attempt>>
    /\ steps' = Append(steps, "HealthCheck")
    /\ UNCHANGED <<config, idx, sleeps, completed, workflow>>

\* Probe without the return: a passed probe goes on to the next attempt
Probe_NoReturn ==
    /\ pc = "probe"
    /\ attempt \in 1..MaxAttempts
    /\ \E o \in PlainOutcomes :
        /\ cmds' = Append(cmds, Entry("curl", ip, o))
        /\ IF ~Raises(o)
             THEN /\ log' = log \o <<Line("attempt", "GET /health", ip)>>
                                \o RunLog("curl", ip, o)
                                \o <<Line("passed", "Health check passed", "")>>
                  /\ IF attempt < MaxAttempts
                       THEN /\ attempt' = attempt + 1
                            /\ pc' = "probe"
                       ELSE /\ attempt' = attempt
                            /\ pc' = "exhausted"
             ELSE /\ log' = log \o <<Line("attempt", "GET /health", ip)>>
                                \o RunLog("curl", ip, o)
                  /\ pc' = "sleep"
                  /\ UNCHANGED attempt
    /\ UNCHANGED <<config, idx, ip, sleeps, steps, completed, exitCode, workflow>>

\* loop body: print the attempt, run("curl -sf http://ip:NODE_PORT/health");
\* return on success, otherwise go to the except branch
Probe ==
    /\ pc = "probe"
    /\ attempt \in 1..MaxAttempts
    /\ \E o \in PlainOutcomes :
        /\ cmds' = Append(cmds, Entry("curl", ip, o))
        /\ IF ~Raises(o)
             THEN /\ log' = log \o <<Line("attempt", "GET /health", ip)>>
                                \o RunLog("curl", ip, o)
                                \o <<Line("passed", "Health check passed", "")>>
                  /\ pc' = "emit"
                  /\ completed' = Append(completed, "HealthCheck")
             ELSE /\ log' = log \o <<Line("attempt", "GET /health", ip)>>
                                \o RunLog("curl", ip, o)
                  /\ pc' = "sleep"
                  /\ UNCHANGED completed
    /\ UNCHANGED <<config, idx, ip, attempt, sleeps, steps, exitCode, workflow>>

\* except CalledProcessError: time.sleep(2); then the for loop advances
Sleep ==
    /\ pc = "sleep"
    /\ sleeps' = Append(sleeps, SleepSeconds)
    /\ IF attempt < MaxAttempts
         THEN /\ attempt' = attempt + 1
              /\ pc' = "probe"
         ELSE /\ attempt' = attempt
              /\ pc' = "exhausted"
    /\ UNCHANGED <<config, idx, ip, cmds, log, steps, completed, exitCode, workflow>>

\* HealthExhausted that only prints and returns to main
HealthExhausted_Return ==
    /\ pc = "exhausted"
    /\ log' = Append(log, Line("exit", "Minikube health check failed after 5 attempts.", ""))
    /\ pc' = "emit"
    /\ completed' = Append(completed, "HealthCheck")
    /\ UNCHANGED <<config, idx, ip, attempt, sleeps, cmds, steps, exitCode, workflow>>

\* after the loop: sys.exit("Minikube health check failed after 5 attempts.")
HealthExhausted ==
    /\ pc = "exhausted"
    /\ SysExit(<<>>, "Minikube health check failed after 5 attempts.")
    /\ UNCHANGED <<config, idx, ip, attempt, sleeps, cmds, steps, completed, workflow>>

----------------------------------------------------------------------------
(* Step 4: generate_github_actions, and the end of main *)

\* os.makedirs, open(GITHUB_WORKFLOW, "w"), write, print; then main prints
\* its success lines and the script ends (exit status 0).  An OSError is an
\* Exception and reaches main's handler.
EmitWorkflow ==
    /\ pc = "emit"
    /\ \E w \in WriteOutcomes :
        IF w = "ok"
          THEN /\ workflow' = Content(config.image, config.namespace, config.port)
               /\ log' = log \o <<Line("generated", "Generated workflow", GITHUB_WORKFLOW),
                                  Line("success", "All steps completed", "")>>
               /\ completed' = Append(completed, "EmitWorkflow")
               /\ exitCode' = 0
               /\ pc' = "done"
          ELSE /\ PipelineFailed(<<>>)
               /\ UNCHANGED <<workflow, completed>>
    /\ steps' = Append(steps, "EmitWorkflow")
    /\ UNCHANGED <<config, idx, ip, attempt, sleeps, cmds>>

----------------------------------------------------------------------------

Next ==
    \/ Status
    \/ Start
    \/ UseContext
    \/ GetNodes
    \/ CreateNamespace
    \/ Apply
    \/ MinikubeIp
    \/ Probe
    \/ Sleep
    \/ HealthExhausted
    \/ EmitWorkflow

Spec == Init /\ [][Next]_vars

\* the script is one sequential process: as long as a statement is left to
\* execute, it is executed
LiveSpec == Spec /\ WF_vars(Next)

----------------------------------------------------------------------------
(* Commands that do not come back.  run() calls subprocess.run(cmd,        *)
(* shell=True, check=True) and healthcheck_minikube calls check_output     *)
(* with no timeout argument, so the script waits for the child for as long *)
(* as the child lives.                                                     *)

CommandPcs == {"status", "start", "use-context", "get-nodes", "create-namespace",
               "apply", "minikube-ip", "probe"}

\* what is printed before the command at pc is handed to subprocess
LinesBefore ==
    CASE pc = "status" -> <<Line("cmd", "status", "")>>
      [] pc = "start" -> <<Line("cmd", "start", "docker")>>
      [] pc = "use-context" -> <<Line("cmd", "use-context", "minikube")>>
      [] pc = "get-nodes" -> <<Line("cmd", "get-nodes", "")>>
      [] pc = "create-namespace" -> <<Line("cmd", "create-namespace", config.namespace)>>
      [] pc = "apply" -> <<Line("step", "Applying manifest", Manifests[idx]),
                           Line("cmd", "apply", Manifests[idx])>>
      [] pc = "minikube-ip" -> <<>>
      [] pc = "probe" -> <<Line("attempt", "GET /health", ip), Line("cmd", "curl", ip)>>

\* the function main enters with the command at pc, if it is a function's first
StepEntered ==
    CASE pc = "status" -> <<"ClusterSetup">>
      [] pc = "create-namespace" -> <<"Deploy">>
      [] pc = "minikube-ip" -> <<"HealthCheck">>
      [] OTHER -> <<>>

\* the command at pc is started and its process never exits: the script
\* stays inside subprocess.run / check_output
NeverReturns ==
    /\ pc \in CommandPcs
    /\ log' = log \o LinesBefore
    /\ steps' = steps \o StepEntered
    /\ pc' = "blocked"
    /\ UNCHANGED <<config, idx, ip, attempt, sleeps, cmds, completed, exitCode, workflow>>

NextNoTimeout == Next \/ NeverReturns

NoTimeoutSpec == Init /\ [][NextNoTimeout]_vars

----------------------------------------------------------------------------
(* The script with other values of its configurable parameters *)

Configs ==
    [namespace : {"atlas", "staging"},
     port : {30080, 30081},
     image : {"atlas-app:latest", "registry.local/atlas-app:v2"}]

InitConfig ==
    /\ config \in Configs
    /\ Running

ConfigSpec == InitConfig /\ [][Next]_vars

----------------------------------------------------------------------------
(* Vocabulary of the properties *)

Terminated == pc \in {"done", "aborted"}

\* the positions in cmds of the executions of one command
Positions(verb) == {i \in DOMAIN cmds : cmds[i].verb = verb}
Count(verb) == Cardinality(Positions(verb))
Failed(verb) == {i \in Positions(verb) : ~cmds[i].ok}

\* the step (as an index of StepOrder) an external command belongs to
StepOfVerb(verb) ==
    CASE verb \in {"status", "start", "use-context", "get-nodes"} -> 1
      [] verb \in {"create-namespace", "apply"} -> 2
      [] verb \in {"minikube-ip", "curl"} -> 3

\* what a run shows of a step having done all of its work
StepSucceeded(n) ==
    CASE n = 1 -> \E i \in Positions("get-nodes") : cmds[i].ok
      [] n = 2 -> \E i \in Positions("apply") : cmds[i].ok /\ cmds[i].arg = ServiceManifest
      [] n = 3 -> \E i \in Positions("curl") : cmds[i].ok
      [] n = 4 -> workflow # <<>>

\* the commands whose failure is not handled inside their step
FatalVerbs == {"start", "use-context", "get-nodes", "apply", "minikube-ip"}

\* the manifests of the apply commands issued so far, in the order issued
RECURSIVE AppliedFrom(_)
AppliedFrom(i) ==
    IF i > Len(cmds) THEN <<>>
    ELSE IF cmds[i].verb = "apply" THEN <<cmds[i].arg>> \o AppliedFrom(i + 1)
    ELSE AppliedFrom(i + 1)
Applied == AppliedFrom(1)

----------------------------------------------------------------------------
\* C1: the steps run in the order ClusterSetup, Deploy, HealthCheck,
\* EmitWorkflow; a step is started only when every earlier step has returned
\* and done its work; the commands of a run never go back to an earlier
\* step; and a fatally failed command is the last one of the run, with no
\* workflow file written after it.
C1_StepsGateEachOther ==
    /\ steps = SubSeq(StepOrder, 1, Len(steps))
    /\ completed = SubSeq(steps, 1, Len(completed))
    /\ Len(steps) <= Len(completed) + 1
    /\ \A n \in 2..Len(steps) : \A m \in 1..(n - 1) : StepSucceeded(m)
    /\ \A i \in DOMAIN cmds :
        /\ StepOfVerb(cmds[i].verb) <= Len(steps)
        /\ \A j \in DOMAIN cmds : i < j => StepOfVerb(cmds[i].verb) <= StepOfVerb(cmds[j].verb)
    /\ workflow # <<>> => steps = StepOrder
    /\ \A i \in DOMAIN cmds :
        (cmds[i].verb \in FatalVerbs /\ ~cmds[i].ok) =>
            /\ i = Len(cmds)
            /\ pc = "aborted"
            /\ Len(steps) = StepOfVerb(cmds[i].verb)
            /\ workflow = <<>>

\* a run that failed in Deploy: two steps started, nothing after the failure
C1_Witness ==
    /\ pc = "aborted"
    /\ steps = <<"ClusterSetup", "Deploy">>
    /\ Failed("apply") = {Len(cmds)}

----------------------------------------------------------------------------
\* C2 (as claimed): whenever create-namespace has failed for a reason other
\* than "already exists", the pipeline is aborted and no manifest has been
\* applied.
C2_OtherNamespaceFailureIsFatal ==
    \A i \in Failed("create-namespace") :
        cmds[i].out # "AlreadyExists" => (pc = "aborted" /\ Count("apply") = 0)

----------------------------------------------------------------------------
\* C3: when create-namespace fails with "already exists", the pipeline does
\* not abort on it: the informational line is printed right after the
\* failure, the next command is the apply of the deployment manifest, and
\* after that apply has succeeded the next command is the apply of the
\* service manifest.
NamespaceExisted == {i \in Failed("create-namespace") : cmds[i].out = "AlreadyExists"}

InfoAfterFailure(verb, arg) ==
    \E k \in 1..(Len(log) - 1) :
        /\ log[k] = Line("failed", verb, arg)
        /\ log[k + 1].kind = "info"
        /\ log[k + 1].arg = arg

C3_AlreadyExistsTolerated ==
    \A i \in NamespaceExisted :
        /\ InfoAfterFailure("create-namespace", NAMESPACE)
        /\ IF Len(cmds) = i
             THEN pc = "apply" /\ idx = 1
             ELSE /\ cmds[i + 1].verb = "apply"
                  /\ cmds[i + 1].arg = DeploymentManifest
                  /\ cmds[i + 1].ok =>
                        IF Len(cmds) = i + 1
                          THEN pc = "apply" /\ idx = 2
                          ELSE /\ cmds[i + 2].verb = "apply"
                               /\ cmds[i + 2].arg = ServiceManifest

\* the namespace existed and both manifests were applied, in order
C3_Witness ==
    /\ NamespaceExisted # {}
    /\ Applied = <<DeploymentManifest, ServiceManifest>>
    /\ Failed("apply") = {}
    /\ pc = "minikube-ip"

----------------------------------------------------------------------------
\* C4: the manifests are applied in their order and the first failure stops
\* the run: when the k-th apply has failed, exactly the first k manifests
\* have been applied, the failed apply is the last command, the pipeline is
\* aborted and HealthCheck was not started.
C4_ApplyStopsAtFirstFailure ==
    /\ Applied = SubSeq(Manifests, 1, Len(Applied))
    /\ \A i \in Failed("apply") :
        /\ i = Len(cmds)
        /\ Cardinality(Failed("apply")) = 1
        /\ Applied[Len(Applied)] = cmds[i].arg
        /\ pc = "aborted"
        /\ exitCode = 1
        /\ Len(steps) = 2
        /\ Count("minikube-ip") = 0
        /\ Count("curl") = 0

\* the second apply failed after the first had succeeded
C4_Witness ==
    /\ Applied = Manifests
    /\ Failed("apply") = {Len(cmds)}
    /\ pc = "aborted"

----------------------------------------------------------------------------
\* C5 (as claimed): a run in which all 5 probes failed ends in exhaustion
\* with exactly 5 probe calls and exactly 4 sleeps.
HealthCheckExhausted ==
    /\ pc = "aborted"
    /\ log[Len(log)] = Line("exit", "Minikube health check failed after 5 attempts.", "")

C5_FourSleepsOnExhaustion ==
    (Cardinality(Failed("curl")) = MaxAttempts /\ Terminated) =>
        /\ HealthCheckExhausted
        /\ Count("curl") = MaxAttempts
        /\ Len(sleeps) = MaxAttempts - 1

----------------------------------------------------------------------------
\* C6: when a probe has succeeded, it is the k-th and last probe of the run
\* (1 <= k <= 5), all earlier probes failed, there were exactly k-1 sleeps,
\* each of the fixed delay, and no command follows it; the pipeline goes on
\* to the workflow emitter, and a run that ends after a successful write has
\* exit code 0 (the only other end is an OSError of the write).
C6_EarlyExitOnSuccess ==
    \A i \in Positions("curl") : cmds[i].ok =>
        LET k == Count("curl") IN
        /\ i = Len(cmds)
        /\ k \in 1..MaxAttempts
        /\ Cardinality(Failed("curl")) = k - 1
        /\ sleeps = [n \in 1..(k - 1) |-> SleepSeconds]
        /\ attempt = k
        /\ completed = SubSeq(StepOrder, 1, Len(completed)) /\ Len(completed) >= 3
        /\ pc \in {"emit", "done", "aborted"}
        /\ pc = "done" => (exitCode = 0 /\ workflow # <<>>)
        /\ pc = "aborted" => (steps = StepOrder /\ workflow = <<>>
                               /\ log[Len(log)].kind = "pipeline_failed")

\* scenario C: three failed probes, success on the fourth, exit code 0
C6_Witness ==
    /\ pc = "done"
    /\ exitCode = 0
    /\ Count("curl") = 4
    /\ Cardinality(Failed("curl")) = 3
    /\ Len(sleeps) = 3
    /\ workflow # <<>>

----------------------------------------------------------------------------
\* C7: once all 5 probes have failed the run cannot succeed: the workflow
\* file is not written, the workflow emitter is not started, and the run
\* ends aborted with exit code 1.
C7_ExhaustionIsFatal ==
    Cardinality(Failed("curl")) = MaxAttempts =>
        /\ workflow = <<>>
        /\ Len(steps) = 3
        /\ pc \in {"sleep", "exhausted", "aborted"}
        /\ exitCode # 0
        /\ Terminated => (HealthCheckExhausted /\ exitCode = 1)

\* the run has ended after 5 failed probes
C7_Witness ==
    /\ Cardinality(Failed("curl")) = MaxAttempts
    /\ pc = "aborted"
    /\ exitCode = 1

----------------------------------------------------------------------------
\* C8: when the address query has failed the pipeline is aborted at once:
\* no probe was issued, no sleep was made, the attempt counter was not
\* advanced, and the workflow is not emitted.
C8_AddressFailureShortCircuits ==
    Failed("minikube-ip") # {} =>
        /\ Failed("minikube-ip") = {Len(cmds)}
        /\ pc = "aborted"
        /\ exitCode = 1
        /\ Count("curl") = 0
        /\ sleeps = <<>>
        /\ attempt = 1
        /\ workflow = <<>>
        /\ Len(steps) = 3

\* the address query failed after a complete deployment
C8_Witness ==
    /\ Failed("minikube-ip") # {}
    /\ Applied = Manifests
    /\ pc = "aborted"

----------------------------------------------------------------------------
\* C9 (as claimed): whenever the status query has not reported "running" -
\* it failed, or it succeeded with another state - the command issued next
\* is the start command.
ReportedRunning(i) == cmds[i].ok /\ cmds[i].out = "Running"

C9_StartWheneverNotRunning ==
    \A i \in Positions("status") :
        ~ReportedRunning(i) =>
            IF Len(cmds) = i THEN pc = "start" ELSE cmds[i + 1].verb = "start"

----------------------------------------------------------------------------
\* C10: in a run whose status query reported the cluster as running, the
\* start command is not issued: the run is not about to issue it and has
\* not issued it.
C10_NoStartWhenRunning ==
    \A i \in Positions("status") :
        ReportedRunning(i) => (Count("start") = 0 /\ pc # "start")

\* a complete run on a cluster that was reported running
C10_Witness ==
    /\ \E i \in Positions("status") : ReportedRunning(i)
    /\ pc = "done"

----------------------------------------------------------------------------
\* C11 (as claimed): whenever the status query has not reported "running",
\* the commands that follow it are one start, then one context-switch, then
\* one node-list, each issued once, and when all three have succeeded the
\* pipeline is in Deploy.
C11_StartContextNodesInOrder ==
    \A i \in Positions("status") :
        ~ReportedRunning(i) =>
            /\ Len(cmds) >= i + 1 => cmds[i + 1].verb = "start"
            /\ Len(cmds) >= i + 2 => cmds[i + 2].verb = "use-context"
            /\ Len(cmds) >= i + 3 => cmds[i + 3].verb = "get-nodes"
            /\ Count("start") <= 1
            /\ Count("use-context") <= 1
            /\ Count("get-nodes") <= 1
            /\ (Len(cmds) >= i + 3 /\ \A j \in (i + 1)..(i + 3) : cmds[j].ok) =>
                    (completed # <<>> /\ completed[1] = "ClusterSetup")

----------------------------------------------------------------------------
\* C12: a failed context-switch, node-list, manifest-apply or address-query
\* command is the last command of the run, was issued exactly once, and
\* leaves the pipeline aborted with exit code 1.
ToolingVerbs == {"use-context", "get-nodes", "apply", "minikube-ip"}

SameCommand(i) == {j \in DOMAIN cmds : cmds[j].verb = cmds[i].verb /\ cmds[j].arg = cmds[i].arg}

C12_ToolingFailureFatalNoRetry ==
    \A i \in DOMAIN cmds :
        (cmds[i].verb \in ToolingVerbs /\ ~cmds[i].ok) =>
            /\ i = Len(cmds)
            /\ SameCommand(i) = {i}
            /\ pc = "aborted"
            /\ exitCode = 1

\* the context switch failed
C12_Witness ==
    /\ Failed("use-context") # {}
    /\ pc = "aborted"

----------------------------------------------------------------------------
\* C13 (as claimed): when the node-list command has exited successfully but
\* listed no node, ClusterSetup has failed: the pipeline is aborted and
\* Deploy was not started.
C13_EmptyNodeListFails ==
    \A i \in Positions("get-nodes") :
        (cmds[i].ok /\ cmds[i].out = "") => (pc = "aborted" /\ Len(steps) = 1)

----------------------------------------------------------------------------
\* C14: the exit code is 0 exactly when all four steps have returned (and
\* then each has done its work); a run that ended in any other way - a
\* command that raised to main, a failed address query, an exhausted health
\* check, a failed write of the workflow file - has exit code 1; a run that
\* has not ended has no exit code.
AllStepsSucceeded == \A n \in 1..Len(StepOrder) : StepSucceeded(n)

C14_ExitZeroIffAllStepsSucceeded ==
    /\ exitCode \in {-1, 0, 1}
    /\ exitCode = -1 <=> ~Terminated
    /\ exitCode = 0 <=> completed = StepOrder
    /\ exitCode = 0 <=> (Terminated /\ AllStepsSucceeded)
    /\ pc = "aborted" => exitCode = 1
    /\ (Terminated /\ \E v \in FatalVerbs : Failed(v) # {}) => exitCode = 1
    /\ (Terminated /\ Cardinality(Failed("curl")) = MaxAttempts) => exitCode = 1
    /\ (Terminated /\ steps = StepOrder /\ workflow = <<>>) => exitCode = 1

\* the write of the workflow file failed after three successful steps
C14_Witness ==
    /\ pc = "aborted"
    /\ steps = StepOrder
    /\ Len(completed) = 3
    /\ workflow = <<>>
    /\ exitCode = 1

----------------------------------------------------------------------------
CatchingCallers == {"status", "create-namespace", "minikube-ip", "curl"}

ReachedMainHandler(i) ==
    /\ i = Len(cmds)
    /\ pc = "aborted"
    /\ log[Len(log)].kind = "pipeline_failed"

----------------------------------------------------------------------------
\* C16 (as claimed): every command runs under a timeout, so a command that
\* does not end by itself is abandoned and its caller gets a failure: the
\* script is never left waiting inside a command.
C16_NoCommandBlocksTheRun ==
    pc # "blocked"

----------------------------------------------------------------------------
\* C17 (as claimed): every command that was executed has its command line
\* in the log, and every failed command has a failure line naming it.
C17_EveryCommandLogged ==
    \A i \in DOMAIN cmds :
        /\ \E k \in DOMAIN log : log[k] = Line("cmd", cmds[i].verb, cmds[i].arg)
        /\ ~cmds[i].ok =>
            \E k \in DOMAIN log : log[k] = Line("failed", cmds[i].verb, cmds[i].arg)

----------------------------------------------------------------------------
\* C18: the emitted text is a function of the configuration alone: it has
\* the same lines in every run, each line that names an image, a namespace
\* or a port carries the configured value, all three values occur, and no
\* other configuration yields the same text.
WorkflowHeads ==
    <<"docker build -t", "minikube image load", "kubectl create namespace",
      "kubectl apply -n", "kubectl apply -n", "curl --retry 5">>

C18_WorkflowParameterized ==
    workflow # <<>> =>
        /\ [k \in DOMAIN workflow |-> workflow[k][1]] = WorkflowHeads
        /\ \A k \in DOMAIN workflow :
            /\ workflow[k][1] \in {"docker build -t", "minikube image load"}
                  => workflow[k][2] = config.image
            /\ workflow[k][1] \in {"kubectl create namespace", "kubectl apply -n"}
                  => workflow[k][2] = config.namespace
            /\ workflow[k][1] = "curl --retry 5"
                  => workflow[k][2] = config.port
        /\ \A c \in Configs :
            c # config => Content(c.image, c.namespace, c.port) # workflow

\* a workflow written under a configuration that differs from the script's
\* in all three values
C18_Witness ==
    /\ workflow # <<>>
    /\ config.namespace = "staging"
    /\ config.port = 30081
    /\ config.image = "registry.local/atlas-app:v2"

----------------------------------------------------------------------------
\* C19: when the status query failed and the start command failed, the start
\* was issued exactly once and is the last command of the run: neither the
\* context switch nor the node listing nor any later command was issued, and
\* the pipeline is aborted with exit code 1.
C19_FailedStartAborts ==
    \A i \in Failed("start") :
        /\ i = 2
        /\ ~cmds[1].ok /\ cmds[1].verb = "status"
        /\ Len(cmds) = 2
        /\ Count("start") = 1
        /\ Count("use-context") = 0
        /\ Count("get-nodes") = 0
        /\ steps = <<"ClusterSetup">>
        /\ workflow = <<>>
        /\ pc = "aborted"
        /\ exitCode = 1

\* the start command failed
C19_Witness ==
    /\ Failed("start") # {}
    /\ Failed("status") # {}
    /\ Terminated

----------------------------------------------------------------------------
\* C20: when every command returns, every run ends, in the success state or
\* aborted; and at every moment of a run there were at most 5 probes and at
\* most 5 sleeps, every other command was issued at most once, and no step
\* was entered twice.
RunIsBounded ==
    /\ Count("curl") <= 5
    /\ Len(sleeps) <= 5
    /\ \A i \in DOMAIN cmds : cmds[i].verb # "curl" => SameCommand(i) = {i}
    /\ \A a, b \in DOMAIN steps : steps[a] = steps[b] => a = b

C20_RunTerminatesBounded ==
    /\ <>Terminated
    /\ []RunIsBounded

\* a run that used the whole retry budget and ended
C20_Witness ==
    /\ Terminated
    /\ Count("curl") = 5
    /\ Len(sleeps) = 5

====
